---- MODULE Spec2Model ----
(***************************************************************************)
(* Model of the socrates dialogue engine: the graph builder and the        *)
(* executor of src/engine/mod.rs, the text writer of src/writer/mod.rs     *)
(* and the text parser of src/parser/mod.rs.                               *)
(*                                                                         *)
(* Strings are sequences of one-character strings, node ids included.      *)
(* Link indices are 0-based as in the source (Vec index); TLA+ sequences   *)
(* are 1-based, so link number i is links[i + 1].                          *)
(***************************************************************************)
EXTENDS Integers, Sequences, FiniteSets, TLC

VARIABLES
    phase,        \* "builder" | "dialog" | "exec" | "panic": which object is alive
    start_node,   \* DialogBuilder.start_node / Dialog.start_node
    nodes,        \* DialogBuilder.nodes / Dialog.nodes: id -> DialogNode
    current,      \* DialogExecutor.current
    path,         \* DialogExecutor.path: sequence of <<node id, index>>
    call,         \* the last operation called, its argument and its result
    output,       \* the text last returned by serialize_dialog
    parsed,       \* the value last returned by parse
    text_in,      \* the text handed to parse by a caller
    other         \* a second DialogExecutor borrowing the same Dialog

vars == <<phase, start_node, nodes, current, path, call, output, parsed,
          text_in, other>>

----------------------------------------------------------------------------
(* Bounds *)

MaxLinks == 3      \* links accepted by add_link before an executor is started
MaxPath == 2       \* choices made in one session
MaxTextLinks == 2  \* links accepted by add_link before a Dialogue is written
MaxSharedLinks == 2  \* links of a Dialogue that two executors borrow
MaxBlocks == 2     \* node blocks in a text handed to parse

(* Inputs *)

IdA == <<"A">>
IdB == <<"B">>
NodeIds == {IdA, IdB}
NodeTexts == {<<"h">>}
LinkTexts == {<<"x">>, <<"y">>}
Indices == 0..MaxLinks
NoId == <<>>
NoText == <<"-">>

----------------------------------------------------------------------------
(* Graph model *)

CondNone == "None"
OnlyIfNotYetChosen == "OnlyIfNotYetChosen"
DialogLinkCondition == {CondNone, OnlyIfNotYetChosen}

DialogLink(from, to, text, condition) ==
    [from |-> from, to |-> to, text |-> text, condition |-> condition]

DialogNode(id, text) == [id |-> id, text |-> text, links |-> <<>>]

(* Fault variant: the new link goes to the front of the sequence. *)
NodeAddLinkFront(node, link) == [node EXCEPT !.links = <<link>> \o @]

NodeAddLink(node, link) == [node EXCEPT !.links = Append(@, link)]

Insert(map, key, value) ==
    [k \in DOMAIN map \cup {key} |-> IF k = key THEN value ELSE map[k]]

TotalLinks(map) ==
    LET RECURSIVE Sum(_)
        Sum(S) == IF S = {} THEN 0
                  ELSE LET k == CHOOSE x \in S : TRUE
                       IN Len(map[k].links) + Sum(S \ {k})
    IN Sum(DOMAIN map)

Call(op, id, index, result) ==
    [op |-> op, id |-> id, index |-> index, result |-> result]

Unparsed ==
    [ok |-> FALSE, error |-> "unparsed", start_node |-> NoId, nodes |-> <<>>,
     remainder |-> <<>>]

NoExecutor == [phase |-> "none", current |-> NoId, path |-> <<>>]

----------------------------------------------------------------------------
(* Graph builder.  HashMap::get_mut(..).unwrap() in add_link panics when   *)
(* the origin node is absent; build() has no failing branch.               *)

NewBuilder(Ids, Texts) ==
    \E id \in Ids, text \in Texts :
        /\ phase = "builder"
        /\ start_node = id
        /\ nodes = Insert(<<>>, id, DialogNode(id, text))
        /\ current = NoId
        /\ path = <<>>
        /\ call = Call("new", id, 0, "Ok")
        /\ output = NoText
        /\ parsed = Unparsed
        /\ text_in = NoText
        /\ other = NoExecutor

Init == NewBuilder({IdA}, NodeTexts)

(* Fault variant: a node whose id is already present is not replaced. *)
BuilderAddNodeKeepFirst(map, node) ==
    IF node.id \in DOMAIN map THEN map ELSE Insert(map, node.id, node)

BuilderAddNode(map, node) == Insert(map, node.id, node)

AddNode(Ids, Texts) ==
    \E id \in Ids, text \in Texts :
        /\ phase = "builder"
        /\ nodes' = BuilderAddNode(nodes, DialogNode(id, text))
        /\ call' = Call("add_node", id, 0,
                         IF id \in DOMAIN nodes THEN "replaced" ELSE "inserted")
        /\ UNCHANGED <<phase, start_node, current, path, output, parsed, text_in, other>>

add_node == AddNode(NodeIds, NodeTexts)

(* Fault variant: a link is stored only when its target is already there. *)
BuilderAddLinkEager(map, link) ==
    IF link.to \in DOMAIN map
    THEN [map EXCEPT ![link.from] = NodeAddLink(@, link)]
    ELSE map

BuilderAddLink(map, link) ==
    [map EXCEPT ![link.from] = NodeAddLink(@, link)]

AddLink(Ids, Texts, max) ==
    \E from \in Ids, to \in Ids, text \in Texts,
       condition \in DialogLinkCondition :
        LET link == DialogLink(from, to, text, condition) IN
        /\ phase = "builder"
        /\ TotalLinks(nodes) < max
        /\ IF from \in DOMAIN nodes
           THEN /\ nodes' = BuilderAddLink(nodes, link)
                /\ call' = Call("add_link", from, 0, "Ok")
                /\ UNCHANGED phase
           ELSE /\ phase' = "panic"
                /\ call' = Call("add_link", from, 0, "panic")
                /\ UNCHANGED nodes
        /\ UNCHANGED <<start_node, current, path, output, parsed, text_in, other>>

add_link == AddLink(NodeIds, LinkTexts, MaxLinks)

BuildResult(map) == "Ok"

build ==
    /\ phase = "builder"
    /\ phase' = "dialog"
    /\ call' = Call("build", NoId, 0, BuildResult(nodes))
    /\ UNCHANGED <<start_node, nodes, current, path, output, parsed, text_in, other>>

----------------------------------------------------------------------------
(* Executor.  An unwrap() on None panics: the session ends in phase        *)
(* "panic" with whatever the method had already changed.                   *)

HasNode(id) == id \in DOMAIN nodes

Links(id) == nodes[id].links

HasLink(id, index) == HasNode(id) /\ index + 1 \in DOMAIN Links(id)

start ==
    /\ phase = "dialog"
    /\ phase' = "exec"
    /\ current' = nodes[start_node].id
    /\ path' = <<>>
    /\ call' = Call("start", NoId, 0, "Ok")
    /\ UNCHANGED <<start_node, nodes, output, parsed, text_in, other>>

Contains(seq, x) == \E k \in DOMAIN seq : seq[k] = x

SelectIndices(p, id) ==
    LET RECURSIVE Sel(_)
        Sel(k) == IF k > Len(p) THEN <<>>
                  ELSE IF p[k][1] = id THEN <<p[k][2]>> \o Sel(k + 1)
                  ELSE Sel(k + 1)
    IN Sel(1)

(* Fault variant: only the choice that led to this visit is remembered. *)
CurrentNodeHistoryThisVisit(p, id) ==
    IF p # <<>> /\ p[Len(p)][1] = id THEN <<p[Len(p)][2]>> ELSE <<>>

CurrentNodeHistory(p, id) == SelectIndices(p, id)

(* Fault variant: every link is treated as OnlyIfNotYetChosen. *)
AvailableIgnoringCondition(link, index, history) ==
    ~Contains(history, index)

Available(link, index, history) ==
    \/ link.condition = CondNone
    \/ (link.condition = OnlyIfNotYetChosen /\ ~Contains(history, index))

(* Fault variant: filter before enumerate, so the indices are renumbered. *)
ChoicesAllRenumbered(links, history) ==
    LET RECURSIVE Filter(_)
        Filter(k) == IF k > Len(links) THEN <<>>
                     ELSE IF Available(links[k], k - 1, history)
                          THEN <<links[k].text>> \o Filter(k + 1)
                          ELSE Filter(k + 1)
        kept == Filter(1)
    IN [j \in 1..Len(kept) |-> <<j - 1, kept[j]>>]

ChoicesAll(links, history) ==
    LET RECURSIVE Filter(_)
        Filter(k) == IF k > Len(links) THEN <<>>
                     ELSE IF Available(links[k], k - 1, history)
                          THEN <<<<k - 1, links[k].text>>>> \o Filter(k + 1)
                          ELSE Filter(k + 1)
    IN Filter(1)

Choices == ChoicesAll(Links(current), CurrentNodeHistory(path, current))

ChoicesGet(links, index) == index + 1 \in DOMAIN links

(* Fault variant: the history entry is pushed after current has moved. *)
ExecutorChooseAfterMove(index) ==
    /\ IF index + 1 \in DOMAIN Links(current)
       THEN /\ current' = Links(current)[index + 1].to
            /\ UNCHANGED phase
       ELSE /\ phase' = "panic"
            /\ UNCHANGED current
    /\ path' = Append(path, <<current', index>>)

ExecutorChoose(index) ==
    /\ path' = Append(path, <<current, index>>)
    /\ IF index + 1 \in DOMAIN Links(current)
       THEN /\ current' = Links(current)[index + 1].to
            /\ UNCHANGED phase
       ELSE /\ phase' = "panic"
            /\ UNCHANGED current

get_choose ==
    \E index \in Indices :
        /\ phase = "exec"
        /\ Len(path) < MaxPath
        /\ IF ~HasNode(current)
           THEN /\ phase' = "panic"
                /\ call' = Call("get", current, index, "panic")
                /\ UNCHANGED <<current, path>>
           ELSE IF ChoicesGet(Links(current), index)
           THEN /\ ExecutorChoose(index)
                /\ call' = Call("get", current, index, "Some")
           ELSE /\ call' = Call("get", current, index, "None")
                /\ UNCHANGED <<phase, current, path>>
        /\ UNCHANGED <<start_node, nodes, output, parsed, text_in, other>>

choose ==
    \E index \in Indices :
        /\ phase = "exec"
        /\ Len(path) < MaxPath
        /\ IF ~HasNode(current)
           THEN /\ phase' = "panic"
                /\ call' = Call("choose", current, index, "panic")
                /\ UNCHANGED <<current, path>>
           ELSE /\ ExecutorChoose(index)
                /\ call' = Call("choose", current, index,
                                 IF HasLink(current, index) THEN "Ok" ELSE "panic")
        /\ UNCHANGED <<start_node, nodes, output, parsed, text_in, other>>

Next == add_node \/ add_link \/ build \/ start \/ get_choose \/ choose

Spec == Init /\ [][Next]_vars

----------------------------------------------------------------------------
(* Two executors borrowing one Dialogue.  Each DialogExecutor owns its     *)
(* current and path and holds the Dialog by shared reference; the first    *)
(* executor is <<phase, current, path>>, the second is the record `other`. *)
(* A panic in either one ends the program.                                 *)

SharedLinkTexts == {<<"x">>}

ExecutorNew(map, first) ==
    [phase |-> "exec", current |-> map[first].id, path |-> <<>>]

ExecutorChoosing(exec, index) ==
    IF index + 1 \in DOMAIN Links(exec.current)
    THEN [phase |-> "exec",
          current |-> Links(exec.current)[index + 1].to,
          path |-> Append(exec.path, <<exec.current, index>>)]
    ELSE [phase |-> "panic",
          current |-> exec.current,
          path |-> Append(exec.path, <<exec.current, index>>)]

ExecutorGetChoose(exec, index) ==
    IF ~HasNode(exec.current) THEN [exec EXCEPT !.phase = "panic"]
    ELSE IF ChoicesGet(Links(exec.current), index)
    THEN ExecutorChoosing(exec, index)
    ELSE exec

GetResult(exec, index) ==
    IF ~HasNode(exec.current) THEN "panic"
    ELSE IF ChoicesGet(Links(exec.current), index) THEN "Some" ELSE "None"

ChoicesOf(exec) ==
    ChoicesAll(Links(exec.current), CurrentNodeHistory(exec.path, exec.current))

shared_add_link == AddLink(NodeIds, SharedLinkTexts, MaxSharedLinks)

first_start == other.phase # "panic" /\ start

first_get_choose == other.phase # "panic" /\ get_choose

other_start ==
    /\ phase \in {"dialog", "exec"}
    /\ other.phase = "none"
    /\ other' = ExecutorNew(nodes, start_node)
    /\ call' = Call("other.start", NoId, 0, "Ok")
    /\ UNCHANGED <<phase, start_node, nodes, current, path, output, parsed, text_in>>

(* Fault variant: both executors record their choices in one history. *)
other_get_choose_shared_path ==
    \E index \in Indices :
        /\ phase \in {"dialog", "exec"}
        /\ other.phase = "exec"
        /\ Len(other.path) < MaxPath
        /\ other' = ExecutorGetChoose(other, index)
        /\ call' = Call("other.get", other.current, index, GetResult(other, index))
        /\ path' = IF phase = "exec" /\ GetResult(other, index) = "Some"
                   THEN Append(path, <<other.current, index>>)
                   ELSE path
        /\ UNCHANGED <<phase, start_node, nodes, current, output, parsed, text_in>>

other_get_choose ==
    \E index \in Indices :
        /\ phase \in {"dialog", "exec"}
        /\ other.phase = "exec"
        /\ Len(other.path) < MaxPath
        /\ other' = ExecutorGetChoose(other, index)
        /\ call' = Call("other.get", other.current, index, GetResult(other, index))
        /\ UNCHANGED <<phase, start_node, nodes, current, path, output, parsed, text_in>>

NextShared ==
    \/ add_node
    \/ shared_add_link
    \/ build
    \/ first_start
    \/ first_get_choose
    \/ other_start
    \/ other_get_choose

SpecShared == Init /\ [][NextShared]_vars

----------------------------------------------------------------------------
(* Text: characters and the inputs of the writer and the parser *)

IdC2 == <<"C", "2">>
TextIds == {IdA, IdB, IdC2}
BodyTexts == {<<"h", "i">>, <<>>}
ChoiceTexts == {<<"o", "k">>}

Drop(s, n) == SubSeq(s, n + 1, Len(s))

StartsWith(s, t) == Len(t) <= Len(s) /\ SubSeq(s, 1, Len(t)) = t

Ok(rest, val) == [ok |-> TRUE, rest |-> rest, val |-> val]

Err == [ok |-> FALSE, rest |-> <<>>, val |-> <<>>]

----------------------------------------------------------------------------
(* Text writer *)

IdToString(id) == id

AllNodes(map) ==
    {order \in [1..Cardinality(DOMAIN map) -> DOMAIN map] :
        \A id \in DOMAIN map : \E k \in DOMAIN order : order[k] = id}

LinkText(links) ==
    LET RECURSIVE Render(_)
        Render(k) ==
            IF k > Len(links) THEN <<>>
            ELSE (IF k = 1 THEN <<"\n", "-", "-", "-", "\n">> ELSE <<" ", "|", " ">>)
                 \o <<"{">> \o IdToString(links[k].to) \o <<"}", " ">>
                 \o links[k].text \o Render(k + 1)
    IN Render(1)

serialize_node(node) ==
    <<"N", "a", "m", "e", ":", " ">> \o IdToString(node.id) \o <<"\n">>
    \o node.text \o LinkText(node.links)
    \o <<"\n", "=", "=", "=", "\n", "\n">>

(* order is the sequence in which all_nodes() yields the nodes. *)
serialize_dialog(first, map, order) ==
    LET RECURSIVE Rest(_)
        Rest(k) == IF k > Len(order) THEN <<>>
                   ELSE (IF map[order[k]].id # map[first].id
                         THEN serialize_node(map[order[k]])
                         ELSE <<>>) \o Rest(k + 1)
    IN serialize_node(map[first]) \o Rest(1)

(* The node map is a HashMap: each Dialogue with these nodes may iterate   *)
(* them in another order (insertion order, hasher seed).                   *)
serialize ==
    \E order \in AllNodes(nodes) :
        /\ phase = "dialog"
        /\ output' = serialize_dialog(start_node, nodes, order)
        /\ call' = Call("serialize_dialog", NoId, 0, "Ok")
        /\ UNCHANGED <<phase, start_node, nodes, current, path, parsed, text_in, other>>

----------------------------------------------------------------------------
(* Text parser *)

Alphanumeric ==
    {"A", "B", "C", "D", "E", "F", "G", "H", "I", "J", "K", "L", "M",
     "N", "O", "P", "Q", "R", "S", "T", "U", "V", "W", "X", "Y", "Z",
     "a", "b", "c", "d", "e", "f", "g", "h", "i", "j", "k", "l", "m",
     "n", "o", "p", "q", "r", "s", "t", "u", "v", "w", "x", "y", "z",
     "0", "1", "2", "3", "4", "5", "6", "7", "8", "9"}

is_alphanumeric(ch) == ch \in Alphanumeric

is_whitespace(ch) == ch = " " \/ ch = "\t" \/ ch = "\n" \/ ch = "\r"

NotPipeNorEquals(ch) == ch # "|" /\ ch # "="

Holds(predicate, ch) ==
    CASE predicate = "is_alphanumeric" -> is_alphanumeric(ch)
      [] predicate = "is_whitespace" -> is_whitespace(ch)
      [] predicate = "choice" -> NotPipeNorEquals(ch)

PrefixLen(predicate, s) ==
    CHOOSE k \in 0..Len(s) :
        /\ \A j \in 1..k : Holds(predicate, s[j])
        /\ k = Len(s) \/ ~Holds(predicate, s[k + 1])

take_while(predicate, s) ==
    LET n == PrefixLen(predicate, s) IN Ok(Drop(s, n), SubSeq(s, 1, n))

tag(t, s) == IF StartsWith(s, t) THEN Ok(Drop(s, Len(t)), t) ELSE Err

trim(s) == Ok(take_while("is_whitespace", s).rest, <<>>)

identifier(s) == take_while("is_alphanumeric", s)

StrTrim(s) ==
    LET n == PrefixLen("is_whitespace", s)
        m == CHOOSE k \in 0..(Len(s) - n) :
                 /\ \A j \in (Len(s) - k + 1)..Len(s) : is_whitespace(s[j])
                 /\ k = Len(s) - n \/ ~is_whitespace(s[Len(s) - k])
    IN SubSeq(s, n + 1, Len(s) - m)

(* Only({e(x) : x \in {v}}) is e with x bound to the value of v, computed once. *)
Only(S) == CHOOSE x \in S : TRUE

Alt(first, second) == IF first.ok THEN first ELSE second

As(result, val) == IF result.ok THEN Ok(result.rest, val) ELSE Err

link_separator(s) ==
    As(Alt(tag(<<"\r", "\n", "-", "-", "-", "\r", "\n">>, s),
           tag(<<"\n", "-", "-", "-", "\n">>, s)), "Link")

node_separator(s) ==
    As(Alt(tag(<<"=", "=", "=", "\r", "\n">>, s),
           tag(<<"=", "=", "=", "\n">>, s)), "Node")

AnySeparator(s) == Alt(link_separator(s), node_separator(s))

ManyTillSeparator(s) ==
    Only({IF hits = {} THEN Err
          ELSE Only({Only({Ok(sep.rest, [text |-> SubSeq(s, 1, at),
                                         separator |-> sep.val])
                           : sep \in {AnySeparator(Drop(s, at))}})
                     : at \in {CHOOSE m \in hits : \A n \in hits : m <= n}})
          : hits \in {{k \in 0..Len(s) : AnySeparator(Drop(s, k)).ok}}})

SeparatedList0(s) ==
    LET RECURSIVE More(_)
        More(i) ==
            IF StartsWith(i, <<"|">>)
            THEN Only({Only({Ok(more.rest, <<item.val>> \o more.val)
                             : more \in {More(item.rest)}})
                       : item \in {take_while("choice", Drop(i, 1))}})
            ELSE Ok(i, <<>>)
    IN Only({Only({Ok(others.rest, <<first.val>> \o others.val)
                   : others \in {More(first.rest)}})
             : first \in {take_while("choice", s)}})

DialogNodeNewWithLinks(id, text, links) ==
    [id |-> id, text |-> text, links |-> links]

(* Fault variant: every parsed link is gated. *)
parse_link_gated(parent, target) ==
    Only({Only({Only({IF ~open.ok \/ ~close.ok THEN Err
                      ELSE Ok(<<>>, DialogLink(parent, id.val, StrTrim(close.rest),
                                               OnlyIfNotYetChosen))
                      : close \in {tag(<<"}">>, id.rest)}})
                : id \in {identifier(open.rest)}})
          : open \in {tag(<<"{">>, trim(target).rest)}})

parse_link(parent, input) ==
    Only({Only({Only({IF ~open.ok \/ ~close.ok THEN Err
                      ELSE Ok(<<>>, DialogLink(parent, target.val,
                                               StrTrim(close.rest), CondNone))
                      : close \in {tag(<<"}">>, target.rest)}})
                : target \in {identifier(open.rest)}})
          : open \in {tag(<<"{">>, trim(input).rest)}})

ParseLinks(parent, choices) ==
    LET RECURSIVE Each(_)
        Each(k) ==
            IF k > Len(choices) THEN Ok(<<>>, <<>>)
            ELSE Only({IF ~link.ok \/ ~more.ok THEN Err
                       ELSE Ok(<<>>, <<link.val>> \o more.val)
                       : link \in {parse_link(parent, choices[k])},
                         more \in {Each(k + 1)}})
    IN Each(1)

ParseChoices(node_name, text, input) ==
    Only({Only({IF ~links.ok \/ ~end.ok THEN Err
                ELSE Ok(end.rest, DialogNodeNewWithLinks(node_name, text, links.val))
                : links \in {ParseLinks(node_name, choices.val)},
                  end \in {node_separator(choices.rest)}})
          : choices \in {SeparatedList0(input)}})

parse_node(input) ==
    Only({Only({Only({IF ~name.ok \/ ~body.ok THEN Err
                      ELSE IF body.val.separator = "Link"
                      THEN ParseChoices(node_name.val, body.val.text, body.rest)
                      ELSE Ok(body.rest, DialogNode(node_name.val, body.val.text))
                      : body \in {ManyTillSeparator(trim(node_name.rest).rest)}})
                : node_name \in {identifier(trim(name.rest).rest)}})
          : name \in {tag(<<"N", "a", "m", "e", ":">>, trim(input).rest)}})

Many0ParseNode(input) ==
    LET RECURSIVE Loop(_)
        Loop(i) ==
            Only({IF ~node.ok THEN Ok(i, <<>>)
                  ELSE Only({Ok(more.rest, <<node.val>> \o more.val)
                             : more \in {Loop(node.rest)}})
                  : node \in {parse_node(i)}})
    IN Loop(input)

AddNodes(map, list) ==
    LET RECURSIVE Add(_, _)
        Add(m, k) == IF k > Len(list) THEN m
                     ELSE Add(BuilderAddNode(m, list[k]), k + 1)
    IN Add(map, 1)

ParseError(error, remainder) ==
    [ok |-> FALSE, error |-> error, start_node |-> NoId, nodes |-> <<>>,
     remainder |-> remainder]

BuildParsed(node, others) ==
    Only({IF BuildResult(built) = "Ok"
          THEN [ok |-> TRUE, error |-> "none", start_node |-> node.id,
                nodes |-> built, remainder |-> others.rest]
          ELSE ParseError("DialogBuildError", others.rest)
          : built \in {AddNodes(Insert(<<>>, node.id, node), others.val)}})

parse(input) ==
    Only({IF ~first.ok THEN ParseError("NomError", input)
          ELSE Only({BuildParsed(first.val, others)
                     : others \in {Many0ParseNode(first.rest)}})
          : first \in {parse_node(input)}})

parse_output ==
    /\ phase = "dialog"
    /\ output # NoText
    /\ parsed' = parse(output)
    /\ call' = Call("parse", NoId, 0, IF parsed'.ok THEN "Ok" ELSE "Err")
    /\ UNCHANGED <<phase, start_node, nodes, current, path, output, text_in, other>>

----------------------------------------------------------------------------
(* The writer and the parser on the Dialogues the builder makes *)

InitText == NewBuilder({IdA}, BodyTexts)

text_add_node == AddNode(TextIds, BodyTexts)

text_add_link == AddLink(TextIds, ChoiceTexts, MaxTextLinks)

NextText == text_add_node \/ text_add_link \/ build \/ serialize \/ parse_output

SpecText == InitText /\ [][NextText]_vars

----------------------------------------------------------------------------
(* The parser on texts a caller hands in: well-formed and malformed node   *)
(* blocks, concatenated.                                                   *)

(* Name: A\nhi\n===\n\n: a node without choices, as the writer lays it out *)
BlockPlain ==
    <<"N", "a", "m", "e", ":", " ", "A", "\n", "h", "i", "\n", "=", "=",
      "=", "\n", "\n">>

(* Name: B\nhi\n---\n{A} ok\n===\n: a node with one choice *)
BlockLinked ==
    <<"N", "a", "m", "e", ":", " ", "B", "\n", "h", "i", "\n", "-", "-",
      "-", "\n", "{", "A", "}", " ", "o", "k", "\n", "=", "=", "=", "\n">>

(* Nme: A\nhi\n===\n: the header keyword is misspelt *)
BlockBadHeader ==
    <<"N", "m", "e", ":", " ", "A", "\n", "h", "i", "\n", "=", "=", "=",
      "\n">>

(* Name: A\nhi\n: the === terminator is absent *)
BlockNoTerminator ==
    <<"N", "a", "m", "e", ":", " ", "A", "\n", "h", "i", "\n">>

(* Name: A\nhi\n---\nA} ok\n===\n: the choice has no opening brace *)
BlockBadChoice ==
    <<"N", "a", "m", "e", ":", " ", "A", "\n", "h", "i", "\n", "-", "-",
      "-", "\n", "A", "}", " ", "o", "k", "\n", "=", "=", "=", "\n">>

(* Name:\n===\n: no identifier follows the header *)
BlockNoName ==
    <<"N", "a", "m", "e", ":", "\n", "=", "=", "=", "\n">>

(* Name: A\nhi\n---\n{} ok\n===\n: the choice has an empty target *)
BlockEmptyTarget ==
    <<"N", "a", "m", "e", ":", " ", "A", "\n", "h", "i", "\n", "-", "-",
      "-", "\n", "{", "}", " ", "o", "k", "\n", "=", "=", "=", "\n">>

(* Name: C2\r\nhi\r\n===\r\n: a node without choices, lines ending in CR LF *)
BlockCarriage ==
    <<"N", "a", "m", "e", ":", " ", "C", "2", "\r", "\n", "h", "i", "\r", "\n",
      "=", "=", "=", "\r", "\n">>

Blocks ==
    {BlockPlain, BlockLinked, BlockCarriage, BlockBadHeader, BlockNoTerminator,
     BlockBadChoice, BlockNoName, BlockEmptyTarget}

InputTexts ==
    LET RECURSIVE Texts(_)
        Texts(n) == IF n = 0 THEN {<<>>}
                    ELSE {block \o rest : block \in Blocks, rest \in Texts(n - 1)}
    IN UNION {Texts(n) : n \in 1..MaxBlocks}

InitParse ==
    \E text \in InputTexts :
        /\ phase = "text"
        /\ start_node = NoId
        /\ nodes = <<>>
        /\ current = NoId
        /\ path = <<>>
        /\ call = Call("text", NoId, 0, "Ok")
        /\ output = NoText
        /\ parsed = Unparsed
        /\ text_in = text
        /\ other = NoExecutor

parse_text ==
    /\ phase = "text"
    /\ parsed' = parse(text_in)
    /\ call' = Call("parse", NoId, 0, IF parsed'.ok THEN "Ok" ELSE "Err")
    /\ UNCHANGED <<phase, start_node, nodes, current, path, output, text_in, other>>

NextParse == parse_text

SpecParse == InitParse /\ [][NextParse]_vars

----------------------------------------------------------------------------
(* Properties of the builder and the executor *)

AllTargetsPresent(map) ==
    \A id \in DOMAIN map : \A k \in DOMAIN map[id].links :
        map[id].links[k].to \in DOMAIN map

IsPrefix(s, t) == Len(s) <= Len(t) /\ SubSeq(t, 1, Len(s)) = s

AtNode == phase = "exec" /\ HasNode(current)

YieldedIndices == {Choices[j][1] : j \in DOMAIN Choices}

(* C1: build() succeeds if and only if every link's `to` id is present   *)
(* among the accumulated nodes; otherwise it fails with InvalidLink.       *)
BuildSucceedsIffTargetsPresent ==
    call.op = "build" => (call.result = "Ok" <=> AllTargetsPresent(nodes))

(* C2: choose(index) with an index that has no link on the current node   *)
(* does not panic: it reports "no such choice" and leaves current and      *)
(* history exactly as they were.                                           *)
ChooseInvalidIndexRejected ==
    [][(/\ AtNode
        /\ call'.op = "choose"
        /\ ~HasLink(current, call'.index))
       => (/\ phase' = "exec"
           /\ call'.result = "None"
           /\ current' = current
           /\ path' = path)]_vars

(* C3: at node N, a link with condition OnlyIfNotYetChosen at index i is   *)
(* among choices() if and only if the pair (N, i) appears nowhere in the   *)
(* whole session history.                                                  *)
GatedLinkOfferedIffNeverChosen ==
    AtNode =>
        \A k \in DOMAIN Links(current) :
            Links(current)[k].condition = OnlyIfNotYetChosen =>
                (Contains(Choices, <<k - 1, Links(current)[k].text>>)
                    <=> ~Contains(path, <<current, k - 1>>))

GatedLinkExcludedOnReturn ==
    /\ AtNode
    /\ Len(path) >= 2
    /\ path[Len(path)][1] # current
    /\ \E k \in DOMAIN Links(current) :
           /\ Links(current)[k].condition = OnlyIfNotYetChosen
           /\ Contains(path, <<current, k - 1>>)
           /\ ~Contains(Choices, <<k - 1, Links(current)[k].text>>)
    /\ Len(Choices) = 1

(* C4: choose(i) with a valid index sets current to links[i].to of the     *)
(* node that was current and appends exactly (previous current, i) to the  *)
(* history; the earlier history is always a prefix of the later history.   *)
ChooseAppendsAndMoves ==
    [][/\ (AtNode /\ call'.op \in {"get", "choose"} /\ HasLink(current, call'.index))
          => (/\ current' = Links(current)[call'.index + 1].to
              /\ path' = Append(path, <<current, call'.index>>))
       /\ (phase = "exec" => IsPrefix(path, path'))]_vars

ChoseTwiceAndMoved ==
    /\ phase = "exec"
    /\ Len(path) >= 2
    /\ path[1] # path[2]
    /\ current # path[Len(path)][1]

(* C5: for a node whose links all have condition None, choices() returns   *)
(* every link of the node, in link-definition order, whatever the history. *)
UngatedNodeOffersAllLinks ==
    (AtNode /\ \A k \in DOMAIN Links(current) : Links(current)[k].condition = CondNone)
        => Choices = [k \in 1..Len(Links(current)) |-> <<k - 1, Links(current)[k].text>>]

UngatedNodeRevisited ==
    /\ AtNode
    /\ Len(Links(current)) >= 2
    /\ \A k \in DOMAIN Links(current) : Links(current)[k].condition = CondNone
    /\ Links(current)[1].text # Links(current)[2].text
    /\ Contains(path, <<current, 0>>)
    /\ Contains(path, <<current, 1>>)

(* C6: each entry of choices() carries the link's original index in the    *)
(* node's full link sequence, entries are in ascending index order, and    *)
(* choosing a yielded index moves to the target of the link whose text was *)
(* yielded with that index.                                                *)
OriginalIndices ==
    AtNode =>
        /\ \A j \in DOMAIN Choices :
               /\ HasLink(current, Choices[j][1])
               /\ Choices[j][2] = Links(current)[Choices[j][1] + 1].text
               /\ j > 1 => Choices[j - 1][1] < Choices[j][1]
        /\ YieldedIndices =
               {k - 1 : k \in {n \in DOMAIN Links(current) :
                                   \/ Links(current)[n].condition = CondNone
                                   \/ ~Contains(path, <<current, n - 1>>)}}

ChoiceIndexStable ==
    /\ []OriginalIndices
    /\ [][(AtNode /\ call'.op \in {"get", "choose"} /\ call'.index \in YieldedIndices)
          => (/\ phase' = "exec"
              /\ \E j \in DOMAIN Choices :
                     /\ Choices[j][1] = call'.index
                     /\ Choices[j][2] = Links(current)[call'.index + 1].text
              /\ current' = Links(current)[call'.index + 1].to)]_vars

ChoseSecondAfterFirstFiltered ==
    /\ phase = "exec"
    /\ Len(path) >= 2
    /\ LET last == path[Len(path)]
       IN /\ last[2] = 1
          /\ HasLink(last[1], 1)
          /\ Links(last[1])[1].condition = OnlyIfNotYetChosen
          /\ Links(last[1])[1].text # Links(last[1])[2].text
          /\ Contains(SubSeq(path, 1, Len(path) - 1), <<last[1], 0>>)
          /\ current = Links(last[1])[2].to

(* C7: for every Dialogue that build() returns and every sequence of valid *)
(* choose calls, current names a node that exists in the Dialogue.         *)
CurrentAlwaysExists ==
    phase = "exec" => HasNode(current)

(* C9: a link whose target node is added only after the link is accepted,  *)
(* build() succeeds once the target exists, and the built Dialogue is the  *)
(* same as if the target node had been added before the link.              *)
ForwardReferencesLegal ==
    /\ phase = "builder" =>
           \A from \in DOMAIN nodes, to \in NodeIds \ DOMAIN nodes,
              text \in LinkTexts, condition \in DialogLinkCondition,
              body \in NodeTexts :
               LET link == DialogLink(from, to, text, condition)
                   node == DialogNode(to, body)
                   late == BuilderAddNode(BuilderAddLink(nodes, link), node)
                   early == BuilderAddLink(BuilderAddNode(nodes, node), link)
               IN /\ late = early
                  /\ Contains(late[from].links, link)
                  /\ BuildResult(late) = "Ok"
    /\ (call.op = "build" /\ AllTargetsPresent(nodes)) => call.result = "Ok"

TargetAddedAfterLink ==
    /\ phase = "builder"
    /\ call.op = "add_node"
    /\ call.result = "inserted"
    /\ AllTargetsPresent(nodes)
    /\ \E from \in DOMAIN nodes \ {call.id} :
           \E k \in DOMAIN nodes[from].links : nodes[from].links[k].to = call.id

(* C12: add_link with an origin id that no added node has is not a crash: *)
(* the builder does not panic, it stays usable, and the missing origin is  *)
(* left for build() to report.                                             *)
AbsentOriginReported ==
    call.op = "add_link" => (phase = "builder" /\ call.result # "panic")

StartPresentLastWriteWins ==
    /\ [](/\ start_node \in DOMAIN nodes
          /\ \A id \in DOMAIN nodes : nodes[id].id = id)
    /\ [][/\ call'.op = "add_node"
             => (/\ phase' = "builder"
                 /\ DOMAIN nodes' = DOMAIN nodes \cup {call'.id}
                 /\ \E text \in NodeTexts :
                        nodes'[call'.id] = DialogNode(call'.id, text)
                 /\ \A id \in DOMAIN nodes \ {call'.id} : nodes'[id] = nodes[id])
          /\ call'.op = "start"
             => (/\ phase' = "exec"
                 /\ current' = start_node
                 /\ HasNode(current')
                 /\ path' = <<>>)]_vars

StartNodeReplaced ==
    /\ phase = "builder"
    /\ call.op = "add_node"
    /\ call.result = "replaced"
    /\ call.id = start_node
    /\ nodes[start_node].links = <<>>
    /\ \E id \in DOMAIN nodes \ {start_node} :
           \E k \in DOMAIN nodes[id].links : nodes[id].links[k].to = start_node

(* C18: selecting index i through choices().get(i).choose() is refused     *)
(* when link i of the current node has condition OnlyIfNotYetChosen and    *)
(* (current, i) is already in the history, so the pair is never recorded   *)
(* a second time.                                                          *)
GatedLinkTakenAtMostOnce ==
    [][(/\ AtNode
        /\ call'.op = "get"
        /\ HasLink(current, call'.index)
        /\ Links(current)[call'.index + 1].condition = OnlyIfNotYetChosen
        /\ Contains(path, <<current, call'.index>>))
       => (/\ call'.result = "None"
           /\ path' = path
           /\ current' = current)]_vars

(* C19: in every state of a running executor the history is a connected    *)
(* path from the start node: an empty history means current is the start   *)
(* node; otherwise the first entry is at the start node, every entry's     *)
(* index is within its node's links, each entry's link leads to the next   *)
(* entry's node, and the last entry's link leads to current.               *)
HistoryIsPathFromStart ==
    phase = "exec" =>
        /\ path = <<>> => current = start_node
        /\ path # <<>> =>
               /\ path[1][1] = start_node
               /\ \A k \in DOMAIN path :
                      /\ HasLink(path[k][1], path[k][2])
                      /\ Links(path[k][1])[path[k][2] + 1].to
                             = (IF k < Len(path) THEN path[k + 1][1] ELSE current)

WentAwayAndCameBack ==
    /\ phase = "exec"
    /\ Len(path) = 2
    /\ path[2][1] # start_node
    /\ path[1][2] # path[2][2]
    /\ current = start_node

----------------------------------------------------------------------------
(* Properties of two executors on one Dialogue *)

First == [phase |-> phase, current |-> current, path |-> path]

(* C13: executors started from the same Dialogue are independent: a step   *)
(* of one leaves the other's current node, history and available choices   *)
(* as they were, each executor moves exactly as a lone executor would from *)
(* its own state, and no executor operation changes the Dialogue.          *)
ExecutorsIndependent ==
    [][/\ call'.op \in {"other.start", "other.get"}
             => (/\ UNCHANGED <<phase, current, path>>
                 /\ AtNode => Choices' = Choices)
       /\ call'.op \in {"start", "get"}
             => (/\ other' = other
                 /\ (other.phase = "exec" /\ HasNode(other.current))
                        => ChoicesOf(other') = ChoicesOf(other))
       /\ (call'.op = "get" /\ phase = "exec")
             => [phase |-> phase', current |-> current', path |-> path']
                    = ExecutorGetChoose(First, call'.index)
       /\ (call'.op = "other.get" /\ other.phase = "exec")
             => other' = ExecutorGetChoose(other, call'.index)
       /\ call'.op = "start" => First' = ExecutorNew(nodes, start_node)
       /\ call'.op = "other.start" => other' = ExecutorNew(nodes, start_node)
       /\ call'.op \in {"start", "get", "other.start", "other.get"}
             => UNCHANGED <<start_node, nodes>>]_vars

BothMovedApart ==
    /\ phase = "exec"
    /\ other.phase = "exec"
    /\ Len(path) = 2
    /\ other.path # <<>>
    /\ other.path[1] # path[1]
    /\ other.current # current
    /\ HasNode(current)
    /\ HasNode(other.current)
    /\ Choices # ChoicesOf(other)
    /\ \E k \in DOMAIN Links(current) :
           /\ Links(current)[k].condition = OnlyIfNotYetChosen
           /\ Contains(path, <<current, k - 1>>)
           /\ ~Contains(other.path, <<current, k - 1>>)

----------------------------------------------------------------------------
(* Properties of the writer and the parser *)

SeparatorChars == {"|", "=", "-", "{", "}", "\n", "\r"}

FreeOfSeparators(text) == \A k \in DOMAIN text : text[k] \notin SeparatorChars

IsIdentifier(id) == id # <<>> /\ \A k \in DOMAIN id : is_alphanumeric(id[k])

RoundTripInput(map) ==
    \A id \in DOMAIN map :
        /\ IsIdentifier(id)
        /\ FreeOfSeparators(map[id].text)
        /\ \A k \in DOMAIN map[id].links :
               /\ map[id].links[k].condition = CondNone
               /\ IsIdentifier(map[id].links[k].to)
               /\ FreeOfSeparators(map[id].links[k].text)

SameLinks(read, written) ==
    /\ Len(read) = Len(written)
    /\ \A k \in DOMAIN written :
           read[k].to = written[k].to /\ read[k].text = written[k].text

(* C8: for a Dialogue whose links all have condition None, parsing the     *)
(* serialized text succeeds and gives the same start id, the same node     *)
(* ids, the same body text for every node and the same links in order.     *)
RoundTripPreserved ==
    (phase = "dialog" /\ parsed.error # "unparsed" /\ RoundTripInput(nodes)) =>
        /\ parsed.ok
        /\ parsed.start_node = start_node
        /\ DOMAIN parsed.nodes = DOMAIN nodes
        /\ \A id \in DOMAIN nodes :
               /\ parsed.nodes[id].text = nodes[id].text
               /\ SameLinks(parsed.nodes[id].links, nodes[id].links)

(* C10: serialize_dialog emits the start node's block first and the other  *)
(* nodes in a fixed order: serializing a Dialogue with the same start,     *)
(* nodes and links again gives the identical text.                         *)
SerializationDeterministic ==
    /\ [](output # NoText => StartsWith(output, serialize_node(nodes[start_node])))
    /\ [][(call'.op = "serialize_dialog" /\ output # NoText) => output' = output]_vars

(* C14: the text format carries no condition: every link of a Dialogue     *)
(* returned by parse has condition None, also when the text was written    *)
(* from a Dialogue that had OnlyIfNotYetChosen links.                      *)
ParsedLinksUnconditional ==
    parsed.ok =>
        \A id \in DOMAIN parsed.nodes : \A k \in DOMAIN parsed.nodes[id].links :
            parsed.nodes[id].links[k].condition = CondNone

GatedLinkReadBackUngated ==
    /\ phase = "dialog"
    /\ parsed.ok
    /\ \E id \in DOMAIN nodes \cap DOMAIN parsed.nodes :
           \E k \in DOMAIN nodes[id].links \cap DOMAIN parsed.nodes[id].links :
               /\ nodes[id].links[k].condition = OnlyIfNotYetChosen
               /\ parsed.nodes[id].links[k].to = nodes[id].links[k].to
               /\ parsed.nodes[id].links[k].condition = CondNone

(* C11: parse returns a Dialogue only when the whole text has been         *)
(* consumed as node blocks; a malformed block anywhere in the text, the    *)
(* first or a later one, gives a syntax failure and nothing is dropped.    *)
WholeTextParsedOrSyntaxError ==
    (call.op = "parse" /\ text_in # NoText) =>
        /\ parsed.ok => StrTrim(parsed.remainder) = <<>>
        /\ StrTrim(parsed.remainder) # <<>> => parsed.error = "NomError"

(* C17: identifiers are non-empty: parse never returns a Dialogue with a   *)
(* node whose id is the empty string or a link whose target is the empty   *)
(* string; such a header or choice is a syntax failure.                    *)
ParsedIdentifiersNonEmpty ==
    parsed.ok =>
        \A id \in DOMAIN parsed.nodes :
            /\ id # <<>>
            /\ parsed.nodes[id].id # <<>>
            /\ \A k \in DOMAIN parsed.nodes[id].links :
                   parsed.nodes[id].links[k].to # <<>>

====
